---- MODULE Spec2Model ----
(***************************************************************************)
(* Model of the FPS and Orbit camera controllers of smooth-bevy-cameras    *)
(* (src/src/controllers/fps.rs, src/src/controllers/orbit.rs).             *)
(*                                                                         *)
(* Numbers.  The program computes in f32.  The model computes exactly on   *)
(* a lattice on which every value it meets is an integer:                  *)
(*   - angles are integers: yaw counts quarter turns (pi/2), pitch counts  *)
(*     multiples of PitchStep = atan(3/4), whose sines and cosines are     *)
(*     the rationals 0, 3/5, 4/5, 24/25, 7/25;                             *)
(*   - a direction is a unit vector multiplied by Scale = 25;              *)
(*   - a position is an integer vector in units of 1/Scale;                *)
(*   - a length (radius) is rounded to the nearest whole unit, the one     *)
(*     rounding step of the model (f32 rounds every operation).            *)
(* One unit of pointer motion times mouse_rotate_sensitivity is one        *)
(* lattice step of angle; sensitivities are fields of the controller.      *)
(***************************************************************************)
EXTENDS Integers, Sequences, FiniteSets, TLC

Scale == 5 * 5

Abs(n) == IF n < 0 THEN -n ELSE n

Sgn(n) == IF n < 0 THEN -1 ELSE IF n > 0 THEN 1 ELSE 0

\* Vec3 / Vec2 arithmetic (glam), on integer tuples.
VAdd(a, b) == [i \in DOMAIN a |-> a[i] + b[i]]

VSub(a, b) == [i \in DOMAIN a |-> a[i] - b[i]]

VScale(k, a) == [i \in DOMAIN a |-> k * a[i]]

VMul(a, b) == [i \in DOMAIN a |-> a[i] * b[i]]

VNeg(a) == [i \in DOMAIN a |-> -a[i]]

Dot(a, b) == a[1] * b[1] + a[2] * b[2] + a[3] * b[3]

Vec2ZERO == <<0, 0>>

Vec3X == <<1, 0, 0>>

Vec3Y == <<0, 1, 0>>

Vec3Z == <<0, 0, 1>>

\* Integer square root (floor), by bisection on [lo, hi).
RECURSIVE SqrtIn(_, _, _)
SqrtIn(n, lo, hi) ==
    IF hi - lo <= 1 THEN lo
    ELSE LET mid == (lo + hi) \div 2
         IN  IF mid * mid <= n THEN SqrtIn(n, mid, hi) ELSE SqrtIn(n, lo, mid)

\* The least power of two, from h on, whose square exceeds n.
RECURSIVE SqrtBound(_, _)
SqrtBound(n, h) == IF h * h > n THEN h ELSE SqrtBound(n, 2 * h)

ISqrt(n) == SqrtIn(n, 0, SqrtBound(n, 1))

\* a / b rounded to the nearest integer, b > 0.
DivRound(a, b) == Sgn(a) * ((2 * Abs(a) + b) \div (2 * b))

(***************************************************************************)
(* LookAngles and LookTransform.  Their source file is not among the       *)
(* sources; they are modelled from the specification, sections 3 and 4.    *)
(***************************************************************************)

\* The pole guard: the largest lattice pitch strictly inside (-pi/2 + eps, pi/2 - eps).
\* 2 * atan(3/4) = 73.7 degrees is inside, 3 * atan(3/4) = 110.6 degrees is beyond.
PitchGuard == 2

\* Scale * cos and Scale * sin of k * atan(3/4).
CosK(k) == CASE Abs(k) = 0 -> 25 [] Abs(k) = 1 -> 20 [] Abs(k) = 2 -> 7

SinK(k) == Sgn(k) * (CASE Abs(k) = 0 -> 0 [] Abs(k) = 1 -> 15 [] Abs(k) = 2 -> 24)

\* cos and sin of q quarter turns.
CosQ(q) == CASE q % 4 = 0 -> 1 [] q % 4 = 1 -> 0 [] q % 4 = 2 -> -1 [] q % 4 = 3 -> 0

SinQ(q) == CASE q % 4 = 0 -> 0 [] q % 4 = 1 -> 1 [] q % 4 = 2 -> 0 [] q % 4 = 3 -> -1

\* Quat::from_axis_angle(Vec3::Y, yaw) * v, yaw in quarter turns.
RotateY(q, v) ==
    << v[1] * CosQ(q) + v[3] * SinQ(q), v[2], v[3] * CosQ(q) - v[1] * SinQ(q) >>

\* atan2 of the horizontal components, to the nearest quarter turn, measured from
\* the reference forward axis +Z towards +X; atan2(0, 0) = 0.
Atan2Q(x, z) ==
    IF Abs(z) >= Abs(x)
    THEN (IF z >= 0 THEN 0 ELSE 2)
    ELSE (IF x > 0 THEN 1 ELSE 3)

\* asin of s / Scale, to the nearest lattice pitch; the domain is clamped to [-1, 1]
\* and the result is clamped into the pole guard.
AsinK(s) ==
    LET c == IF s > Scale THEN Scale ELSE IF s < -Scale THEN -Scale ELSE s
        k == CASE Abs(c) <= 7  -> 0
               [] Abs(c) > 7 /\ Abs(c) <= 20 -> 1
               [] Abs(c) > 20 -> 2
    IN  Sgn(c) * (IF k > PitchGuard THEN PitchGuard ELSE k)

from_vector(v) == [yaw |-> Atan2Q(v[1], v[3]), pitch |-> AsinK(v[2])]

add_yaw(a, delta) == [a EXCEPT !.yaw = a.yaw + delta]

add_pitch(a, delta) == [a EXCEPT !.pitch = a.pitch + delta]

get_yaw(a) == a.yaw

\* TRUE when the assertion holds; when it fails the program terminates.
assert_not_looking_up(a) == Abs(a.pitch) <= PitchGuard

\* Yaw, then pitch, applied to the reference forward axis +Z (times Scale).
unit_vector(a) == RotateY(a.yaw, << 0, SinK(a.pitch), CosK(a.pitch) >>)

\* |target - eye| in whole units.
radius(t) ==
    LET d == VSub(t.target, t.eye)
    IN  DivRound(ISqrt(4 * Dot(d, d)), 2 * Scale)

\* normalize(target - eye), times Scale.  Not defined when eye = target: see Undefined.
look_direction(t) ==
    LET d == VSub(t.target, t.eye)
        len == ISqrt(Dot(d, d))
    IN  [i \in 1..3 |-> DivRound(d[i] * Scale, len)]

(***************************************************************************)
(* bevy Events<T>: a double buffer.  send appends to the current buffer;   *)
(* update (run once at the start of every frame, installed by add_event)   *)
(* drops the older buffer and makes the current one the older.  An         *)
(* EventReader keeps the count of events it has seen; iter() returns the   *)
(* events after that count and moves the count to the end at once.         *)
(* Every entry carries the tick in which it was sent.                      *)
(***************************************************************************)
EventsNew == [old |-> <<>>, new |-> <<>>]

EventsAll(e) == e.old \o e.new

EventsSend(e, batch, now) ==
    [e EXCEPT !.new = @ \o [i \in 1..Len(batch) |-> [ev |-> batch[i], tick |-> now]]]

\* Mutant of EventsUpdate: the older buffer is kept, nothing is ever dropped.
EventsUpdateKeepsAll(e) == [old |-> e.old \o e.new, new |-> <<>>]

EventsUpdate(e) == [old |-> e.new, new |-> <<>>]

\* The entries of the older buffer that a reader with count `read` has not seen.
Unread(e, read) == IF read < Len(e.old) THEN Len(e.old) - read ELSE 0

\* The reader's count, relative to the first retained event, after update.
ReaderAfterUpdate(e, read) == IF read > Len(e.old) THEN read - Len(e.old) ELSE 0

ReaderIter(e, read) == SubSeq(EventsAll(e), read + 1, Len(EventsAll(e)))

Payloads(entries) == [i \in 1..Len(entries) |-> entries[i].ev]

(***************************************************************************)
(* Bounds and input domains.                                               *)
(***************************************************************************)
MaxTicks == 2

\* Pointer-motion events that arrive in one frame.
MotionBatches ==
    { <<>>, << <<1, 0>> >>, << <<1, 1>>, <<0, 1>> >> }

\* Scroll events (y) that arrive in one frame.
WheelBatches == { <<>>, << 1 >>, << 2, -1 >> }

\* Sets of keys held during one frame.
KeySets == { {}, {"W"}, {"A"}, {"Space"}, {"LShift"}, {"S", "D"} }

\* The smaller input of the frames of the "entities" scenario.
SceneMotionBatches == { <<>>, << <<1, 0>> >> }

SceneKeySets == { {}, {"W"} }

\* World rotations of the camera entity, as the images of X, Y and Z:
\* the identity and a quarter roll about Z.
SceneRotations ==
    { << <<1, 0, 0>>, <<0, 1, 0>>, <<0, 0, 1>> >>,
      << <<0, 1, 0>>, <<-1, 0, 0>>, <<0, 0, 1>> >> }

QuatMul(q, v) == VAdd(VAdd(VScale(v[1], q[1]), VScale(v[2], q[2])), VScale(v[3], q[3]))

Up == Vec3Y

\* LookTransforms a camera is set up with: level, looking down -Z from distance 1;
\* and pitched down one step, looking towards +Z, from distance 4.
\* nan: the vectors of the transform hold NaN (see Undefined below).
InitialLooks ==
    { [eye |-> <<0, 0, 25>>, target |-> <<0, 0, 0>>, up |-> Up, nan |-> FALSE],
      [eye |-> <<0, 0, 0>>, target |-> <<0, -60, 80>>, up |-> Up, nan |-> FALSE] }

VARIABLES
    mode,          \* "fps" or "orbit": which plugin the app runs
    tick,          \* number of the current frame
    ran,           \* which of the two systems have run in this frame
    controller,    \* FpsCameraController / OrbitCameraController of the camera
    look,          \* LookTransform of the camera
    scene,         \* Transform.rotation of the camera
    keyboard,      \* Input<KeyCode>: the keys held
    middle,        \* Input<MouseButton>: middle button held
    motion,        \* Events<MouseMotion>
    motionRead,    \* the mapper's EventReader<MouseMotion>
    wheel,         \* Events<MouseWheel>
    wheelRead,     \* the mapper's EventReader<MouseWheel>
    events,        \* Events<FPSControlEvent> / Events<OrbitControlEvent>
    eventsRead,    \* the controller update's EventReader
    panicked,      \* an assertion failed: the program has terminated
    pre,           \* history: LookTransform before the last controller update
    applied,       \* history: entries the last controller update consumed
    rawRead,       \* history: motion entries the mapper read in this frame
    wheelSeen,     \* history: scroll entries the mapper read in this frame
    disabledTicks, \* history: the frames in which the controller was disabled
    lost,          \* history: raw entries the last Events::update dropped unread
    scenario,      \* "single": one camera, spawned throughout; "entities": see below
    present,       \* the camera (and every camera after it) is spawned in this frame
    front,         \* entities before the camera in query order: no LookTransform
    rest,          \* cameras after the camera in query order
    cameraLess     \* history: the frames in which no camera was spawned

vars == << mode, tick, ran, controller, look, scene, keyboard, middle, motion,
           motionRead, wheel, wheelRead, events, eventsRead, panicked, pre,
           applied, rawRead, wheelSeen, disabledTicks, lost, scenario, present,
           front, rest, cameraLess >>

FpsCameraController ==
    [enabled |-> TRUE, mouse_rotate_sensitivity |-> <<1, 1>>,
     translate_sensitivity |-> Scale]

OrbitCameraController ==
    [enabled |-> TRUE, mouse_rotate_sensitivity |-> <<1, 1>>,
     mouse_translate_sensitivity |-> <<3 * Scale, 3 * Scale>>,
     mouse_wheel_zoom_sensitivity |-> 1]

\* The controller component an entity of the app is spawned with.
DefaultController == IF mode = "fps" THEN FpsCameraController ELSE OrbitCameraController

\* An entity spawned from FpsCameraBundle / OrbitCameraBundle (which hold the
\* controller only) and a Transform, with no LookTransform inserted.
IncompleteEntity == [entity |-> "incomplete", controller |-> DefaultController]

\* A second camera: controller, LookTransform and Transform.
SecondCamera ==
    [entity |-> "second", controller |-> DefaultController,
     look |-> [eye |-> <<0, 0, 0>>, target |-> <<0, -60, 80>>, up |-> Up, nan |-> FALSE]]

\* Query<&FpsCameraController, With<Transform>> of the mapper, in iteration order.
controllers ==
    front \o (IF present
              THEN << [entity |-> "camera", controller |-> controller] >>
                   \o [i \in 1..Len(rest) |->
                         [entity |-> rest[i].entity, controller |-> rest[i].controller]]
              ELSE <<>>)

\* Query<(&FpsCameraController, &mut LookTransform, With<Transform>)> of the
\* controller update, in iteration order.
cameras ==
    IF present
    THEN << [entity |-> "camera", controller |-> controller, look |-> look] >> \o rest
    ELSE <<>>

\* What the frames of a scenario draw their input from.  "single": one camera,
\* spawned throughout.  "entities": the cameras are spawned and despawned between
\* frames, next to an incomplete entity and a second camera.
FrameMotion == IF scenario = "single" THEN MotionBatches ELSE SceneMotionBatches

FrameWheel ==
    IF mode = "orbit" /\ scenario = "single" THEN WheelBatches ELSE {<<>>}

FrameKeys ==
    IF mode # "fps" THEN {{}}
    ELSE IF scenario = "single" THEN KeySets ELSE SceneKeySets

FrameMiddle == IF mode = "orbit" THEN BOOLEAN ELSE {FALSE}

FramePresent == IF scenario = "single" THEN {TRUE} ELSE BOOLEAN

\* The state every app starts in, whatever it spawns.
Constructed ==
    /\ tick = 0
    /\ ran = [map |-> TRUE, control |-> TRUE]
    /\ controller = DefaultController
    /\ present = TRUE
    /\ keyboard = {}
    /\ middle = FALSE
    /\ motion = EventsNew
    /\ motionRead = 0
    /\ wheel = EventsNew
    /\ wheelRead = 0
    /\ events = EventsNew
    /\ eventsRead = 0
    /\ panicked = FALSE
    /\ pre = look
    /\ applied = <<>>
    /\ rawRead = <<>>
    /\ wheelSeen = <<>>
    /\ disabledTicks = {}
    /\ lost = 0
    /\ cameraLess = {}

\* An app with one or two cameras behind an entity that may lack its LookTransform.
SceneInit ==
    /\ mode \in {"fps", "orbit"}
    /\ scenario = "entities"
    /\ look = [eye |-> <<0, 0, 25>>, target |-> <<0, 0, 0>>, up |-> Up, nan |-> FALSE]
    /\ scene = CHOOSE q \in SceneRotations : q[1] = Vec3X
    /\ front \in { <<>>, << IncompleteEntity >> }
    /\ rest \in { <<>>, << SecondCamera >> }
    /\ Constructed

Init ==
    /\ mode \in {"fps", "orbit"}
    /\ scenario = "single"
    /\ front = <<>>
    /\ rest = <<>>
    /\ look \in InitialLooks
    /\ scene \in (IF mode = "fps" THEN {CHOOSE q \in SceneRotations : q[1] = Vec3X}
                                  ELSE SceneRotations)
    /\ Constructed

(***************************************************************************)
(* One frame begins: the window's pointer and scroll events of the frame   *)
(* are sent, the key and button state is set, application code may flip    *)
(* `enabled`, and Events::update runs for every event type.  The two       *)
(* systems of the plugin then run once each.                               *)
(***************************************************************************)
FrameInput ==
    /\ ~panicked
    /\ tick < MaxTicks
    /\ ran.map /\ ran.control
    /\ \E en \in BOOLEAN, m \in FrameMotion, w \in FrameWheel, k \in FrameKeys,
          b \in FrameMiddle, spawned \in FramePresent :
        /\ controller' = [controller EXCEPT !.enabled = en]
        /\ present' = spawned
        /\ cameraLess' = IF spawned THEN cameraLess ELSE cameraLess \cup {tick + 1}
        /\ disabledTicks' = IF en THEN disabledTicks ELSE disabledTicks \cup {tick + 1}
        /\ keyboard' = k
        /\ middle' = b
        /\ LET sent == EventsSend(motion, m, tick + 1)
           IN  /\ motion' = EventsUpdate(sent)
               /\ motionRead' = ReaderAfterUpdate(sent, motionRead)
        /\ LET sent == EventsSend(wheel, w, tick + 1)
           IN  /\ wheel' = EventsUpdate(sent)
               /\ wheelRead' = ReaderAfterUpdate(sent, wheelRead)
    /\ events' = EventsUpdate(events)
    /\ eventsRead' = ReaderAfterUpdate(events, eventsRead)
    /\ tick' = tick + 1
    /\ ran' = [map |-> FALSE, control |-> FALSE]
    /\ pre' = look
    /\ applied' = <<>>
    /\ rawRead' = <<>>
    /\ wheelSeen' = <<>>
    /\ lost' = Unread(motion, motionRead) + Unread(wheel, wheelRead)
    /\ UNCHANGED << mode, look, scene, panicked, scenario, front, rest >>

(***************************************************************************)
(* FPS controller: src/src/controllers/fps.rs                              *)
(***************************************************************************)
Rotate(delta) == [type |-> "Rotate", delta |-> delta]

TranslateEye(delta) == [type |-> "TranslateEye", delta |-> delta]

\* The (key, direction) table of map_fps_input, in its order.
KeyDirs ==
    << [key |-> "W", dir |-> Vec3Z],
       [key |-> "A", dir |-> Vec3X],
       [key |-> "S", dir |-> VNeg(Vec3Z)],
       [key |-> "D", dir |-> VNeg(Vec3X)],
       [key |-> "LShift", dir |-> VNeg(Vec3Y)],
       [key |-> "Space", dir |-> Vec3Y] >>

\* cursor_delta: the sum of the deltas read.
RECURSIVE SumDeltas(_)
SumDeltas(ds) == IF ds = <<>> THEN Vec2ZERO ELSE VAdd(Head(ds), SumDeltas(Tail(ds)))

\* Mutant of FpsMappedEvents: the held keys are merged into one translation.
FpsMappedEventsMerged(c, deltas, keys) ==
    LET Held(kd) == kd.key \in keys
        held == SelectSeq(KeyDirs, Held)
        Sum[i \in 0..Len(held)] ==
            IF i = 0 THEN <<0, 0, 0>> ELSE VAdd(Sum[i - 1], held[i].dir)
    IN  << Rotate(VMul(c.mouse_rotate_sensitivity, SumDeltas(deltas))) >>
        \o (IF held = <<>> THEN <<>>
            ELSE << TranslateEye(VScale(c.translate_sensitivity, Sum[Len(held)])) >>)

\* What map_fps_input sends, given the controller, the deltas read and the keys held.
FpsMappedEvents(c, deltas, keys) ==
    LET Held(kd) == kd.key \in keys
        held == SelectSeq(KeyDirs, Held)
    IN  << Rotate(VMul(c.mouse_rotate_sensitivity, SumDeltas(deltas))) >>
        \o [i \in 1..Len(held) |->
              TranslateEye(VScale(c.translate_sensitivity, held[i].dir))]

map_fps_input ==
    /\ mode = "fps"
    /\ ~panicked
    /\ ~ran.map
    /\ ran' = [ran EXCEPT !.map = TRUE]
    /\ IF controllers = <<>>
       THEN UNCHANGED << events, motionRead, rawRead >>
       ELSE IF ~Head(controllers).controller.enabled
       THEN UNCHANGED << events, motionRead, rawRead >>
       ELSE LET read == ReaderIter(motion, motionRead)
            IN  /\ motionRead' = Len(EventsAll(motion))
                /\ rawRead' = read
                /\ events' = EventsSend(events,
                       FpsMappedEvents(Head(controllers).controller, Payloads(read),
                                       keyboard), tick)
    /\ UNCHANGED << mode, tick, controller, look, scene, keyboard, middle, motion,
                    wheel, wheelRead, eventsRead, panicked, pre, applied,
                    wheelSeen, disabledTicks, lost, scenario, present, front, rest,
                    cameraLess >>

\* look_direction() of a transform with eye = target divides zero by zero: the
\* direction is NaN, and so are the angles, the basis and every vector the update
\* computes from them; NaN fails every comparison, the assertion's included.
Undefined(t) == t.nan \/ t.eye = t.target

\* Mutant of FpsApply: a translation uses the basis of the yaw as rotated so far.
RECURSIVE FpsApplyNewBasis(_, _, _)
FpsApplyNewBasis(acc, evs, basis) ==
    IF evs = <<>> THEN acc
    ELSE LET e == Head(evs)
             next == IF e.type = "Rotate"
                     THEN [acc EXCEPT !.angles =
                              add_pitch(add_yaw(@, -e.delta[1]), -e.delta[2])]
                     ELSE [acc EXCEPT !.eye =
                              VAdd(@, RotateY(get_yaw(acc.angles), e.delta))]
         IN  FpsApplyNewBasis(next, Tail(evs), basis)

\* The event loop of control_fps_camera on (look_angles, transform.eye); basis
\* is (rot_x, rot_y, rot_z).
RECURSIVE FpsApply(_, _, _)
FpsApply(acc, evs, basis) ==
    IF evs = <<>> THEN acc
    ELSE LET e == Head(evs)
             next == IF e.type = "Rotate"
                     THEN [acc EXCEPT !.angles =
                              add_pitch(add_yaw(@, -e.delta[1]), -e.delta[2])]
                     ELSE [acc EXCEPT !.eye =
                              VAdd(@, VAdd(VAdd(VScale(e.delta[1], basis[1]),
                                                VScale(e.delta[2], basis[2])),
                                           VScale(e.delta[3], basis[3])))]
         IN  FpsApply(next, Tail(evs), basis)

\* Mutant of FpsUpdate: translations are applied along the world axes.
FpsUpdateWorldAxes(t, evs) ==
    LET a0 == from_vector(look_direction(t))
        basis == << Vec3X, Vec3Y, Vec3Z >>
        r == FpsApply([angles |-> a0, eye |-> t.eye], evs, basis)
        moved == [t EXCEPT !.eye = r.eye]
    IN  IF assert_not_looking_up(r.angles)
        THEN [panic |-> FALSE,
              look |-> [moved EXCEPT !.target =
                          VAdd(moved.eye, VScale(radius(moved), unit_vector(r.angles)))]]
        ELSE [panic |-> TRUE, look |-> moved]

\* The enabled branch of control_fps_camera.
FpsUpdate(t, evs) ==
    LET a0 == from_vector(look_direction(t))
        yaw_rot == get_yaw(a0)
        basis == << RotateY(yaw_rot, Vec3X), RotateY(yaw_rot, Vec3Y),
                    RotateY(yaw_rot, Vec3Z) >>
        r == FpsApply([angles |-> a0, eye |-> t.eye], evs, basis)
        moved == [t EXCEPT !.eye = r.eye]
    IN  IF assert_not_looking_up(r.angles)
        THEN [panic |-> FALSE,
              look |-> [moved EXCEPT !.target =
                          VAdd(moved.eye, VScale(radius(moved), unit_vector(r.angles)))]]
        ELSE [panic |-> TRUE, look |-> moved]

\* Mutant of FpsControl: the enabled flag is not consulted.
FpsControlIgnoresEnabled(c, t, evs) ==
    IF Undefined(t) THEN [panic |-> FALSE, look |-> [t EXCEPT !.nan = TRUE]]
    ELSE FpsUpdate(t, evs)

\* Both branches of control_fps_camera.
FpsControl(c, t, evs) ==
    IF ~c.enabled THEN [panic |-> FALSE, look |-> t]
    ELSE IF Undefined(t) THEN [panic |-> FALSE, look |-> [t EXCEPT !.nan = TRUE]]
    ELSE FpsUpdate(t, evs)

\* Mutant of FpsCameras: every camera of the query is updated.
FpsCamerasAll(cams, evs) ==
    LET res(i) == FpsControl(cams[i].controller, cams[i].look, evs)
    IN  [panic |-> \E i \in 1..Len(cams) : res(i).panic,
         cams |-> [i \in 1..Len(cams) |-> [cams[i] EXCEPT !.look = res(i).look]]]

\* control_fps_camera on a query result that is not empty: the first camera is
\* updated ("Can only control one camera at a time"), the others are not visited.
FpsCameras(cams, evs) ==
    LET res == FpsControl(cams[1].controller, cams[1].look, evs)
    IN  [panic |-> res.panic,
         cams |-> [i \in 1..Len(cams) |->
                     IF i = 1 THEN [cams[i] EXCEPT !.look = res.look] ELSE cams[i]]]

control_fps_camera ==
    /\ mode = "fps"
    /\ ~panicked
    /\ ~ran.control
    /\ ran' = [ran EXCEPT !.control = TRUE]
    /\ IF cameras = <<>>
       THEN UNCHANGED << eventsRead, applied, pre, look, rest, panicked >>
       ELSE LET read == ReaderIter(events, eventsRead)
                out == FpsCameras(cameras, Payloads(read))
            IN  /\ eventsRead' = Len(EventsAll(events))
                /\ applied' = read
                /\ pre' = look
                /\ look' = out.cams[1].look
                /\ rest' = Tail(out.cams)
                /\ panicked' = out.panic
    /\ UNCHANGED << mode, tick, controller, scene, keyboard, middle, motion,
                    motionRead, wheel, wheelRead, events, rawRead, wheelSeen,
                    disabledTicks, lost, scenario, present, front, cameraLess >>

(***************************************************************************)
(* Orbit controller: src/src/controllers/orbit.rs                          *)
(***************************************************************************)
Orbit(delta) == [type |-> "Orbit", delta |-> delta]

TranslateTarget(delta) == [type |-> "TranslateTarget", delta |-> delta]

Zoom(scalar) == [type |-> "Zoom", scalar |-> scalar]

\* Mutant of ZoomScalar: scroll events compose additively.
RECURSIVE ZoomScalarAdditive(_, _)
ZoomScalarAdditive(ys, sensitivity) ==
    IF ys = <<>> THEN 1
    ELSE ZoomScalarAdditive(SubSeq(ys, 1, Len(ys) - 1), sensitivity)
           + (-ys[Len(ys)]) * sensitivity

\* scalar: the product of 1.0 + -event.y * sensitivity over the scroll events read.
RECURSIVE ZoomScalar(_, _)
ZoomScalar(ys, sensitivity) ==
    IF ys = <<>> THEN 1
    ELSE ZoomScalar(SubSeq(ys, 1, Len(ys) - 1), sensitivity)
           * (1 + (-ys[Len(ys)]) * sensitivity)

\* Mutant of OrbitMappedEvents: no Zoom is sent when nothing was scrolled.
OrbitMappedEventsZoomOnScroll(c, deltas, ys, middleHeld) ==
    LET cursor_delta == SumDeltas(deltas)
    IN  << Orbit(VMul(c.mouse_rotate_sensitivity, cursor_delta)) >>
        \o (IF middleHeld
            THEN << TranslateTarget(VMul(c.mouse_translate_sensitivity, cursor_delta)) >>
            ELSE <<>>)
        \o (IF ys = <<>> THEN <<>>
            ELSE << Zoom(ZoomScalar(ys, c.mouse_wheel_zoom_sensitivity)) >>)

\* What map_orbit_input sends.
OrbitMappedEvents(c, deltas, ys, middleHeld) ==
    LET cursor_delta == SumDeltas(deltas)
    IN  << Orbit(VMul(c.mouse_rotate_sensitivity, cursor_delta)) >>
        \o (IF middleHeld
            THEN << TranslateTarget(VMul(c.mouse_translate_sensitivity, cursor_delta)) >>
            ELSE <<>>)
        \o << Zoom(ZoomScalar(ys, c.mouse_wheel_zoom_sensitivity)) >>

map_orbit_input ==
    /\ mode = "orbit"
    /\ ~panicked
    /\ ~ran.map
    /\ ran' = [ran EXCEPT !.map = TRUE]
    /\ IF controllers = <<>>
       THEN UNCHANGED << events, motionRead, rawRead, wheelRead, wheelSeen >>
       ELSE IF ~Head(controllers).controller.enabled
       THEN UNCHANGED << events, motionRead, rawRead, wheelRead, wheelSeen >>
       ELSE LET read == ReaderIter(motion, motionRead)
                scrolled == ReaderIter(wheel, wheelRead)
            IN  /\ motionRead' = Len(EventsAll(motion))
                /\ rawRead' = read
                /\ wheelRead' = Len(EventsAll(wheel))
                /\ wheelSeen' = scrolled
                /\ events' = EventsSend(events,
                       OrbitMappedEvents(Head(controllers).controller, Payloads(read),
                                         Payloads(scrolled), middle), tick)
    /\ UNCHANGED << mode, tick, controller, look, scene, keyboard, middle, motion,
                    wheel, eventsRead, panicked, pre, applied, disabledTicks, lost,
                    scenario, present, front, rest, cameraLess >>

\* Mutant of OrbitApply: a pan moves the target in the basis of the yaw as orbited
\* so far.
RECURSIVE OrbitApplyPanInView(_, _, _)
OrbitApplyPanInView(acc, evs, rotation) ==
    IF evs = <<>> THEN acc
    ELSE LET e == Head(evs)
             right_dir == RotateY(get_yaw(acc.angles), QuatMul(rotation, VNeg(Vec3X)))
             up_dir == QuatMul(rotation, Vec3Y)
             next == CASE e.type = "Orbit" ->
                            [acc EXCEPT !.angles =
                                add_pitch(add_yaw(@, -e.delta[1]), e.delta[2])]
                       [] e.type = "TranslateTarget" ->
                            [acc EXCEPT !.target =
                                VAdd(@, VAdd(VScale(e.delta[1], right_dir),
                                             VScale(e.delta[2], up_dir)))]
                       [] e.type = "Zoom" ->
                            [acc EXCEPT !.radius_scalar = @ * e.scalar]
         IN  OrbitApplyPanInView(next, Tail(evs), rotation)

\* The event loop of control_orbit_camera on (look_angles, transform.target,
\* radius_scalar); rotation is scene_transform.rotation.
RECURSIVE OrbitApply(_, _, _)
OrbitApply(acc, evs, rotation) ==
    IF evs = <<>> THEN acc
    ELSE LET e == Head(evs)
             right_dir == QuatMul(rotation, VNeg(Vec3X))
             up_dir == QuatMul(rotation, Vec3Y)
             next == CASE e.type = "Orbit" ->
                            [acc EXCEPT !.angles =
                                add_pitch(add_yaw(@, -e.delta[1]), e.delta[2])]
                       [] e.type = "TranslateTarget" ->
                            [acc EXCEPT !.target =
                                VAdd(@, VAdd(VScale(e.delta[1], right_dir),
                                             VScale(e.delta[2], up_dir)))]
                       [] e.type = "Zoom" ->
                            [acc EXCEPT !.radius_scalar = @ * e.scalar]
         IN  OrbitApply(next, Tail(evs), rotation)

\* Mutant of OrbitUpdate: the angles are taken from the look direction itself.
OrbitUpdateFromLook(t, evs, rotation) ==
    LET a0 == from_vector(look_direction(t))
        r == OrbitApply([angles |-> a0, target |-> t.target, radius_scalar |-> 1],
                        evs, rotation)
        moved == [t EXCEPT !.target = r.target]
    IN  IF assert_not_looking_up(r.angles)
        THEN [panic |-> FALSE,
              look |-> [moved EXCEPT !.eye =
                          VAdd(moved.target,
                               VScale(r.radius_scalar * radius(moved),
                                      unit_vector(r.angles)))]]
        ELSE [panic |-> TRUE, look |-> moved]

\* The enabled branch of control_orbit_camera.
OrbitUpdate(t, evs, rotation) ==
    LET a0 == from_vector(VNeg(look_direction(t)))
        r == OrbitApply([angles |-> a0, target |-> t.target, radius_scalar |-> 1],
                        evs, rotation)
        moved == [t EXCEPT !.target = r.target]
    IN  IF assert_not_looking_up(r.angles)
        THEN [panic |-> FALSE,
              look |-> [moved EXCEPT !.eye =
                          VAdd(moved.target,
                               VScale(r.radius_scalar * radius(moved),
                                      unit_vector(r.angles)))]]
        ELSE [panic |-> TRUE, look |-> moved]

\* Both branches of control_orbit_camera.
OrbitControl(c, t, evs, rotation) ==
    IF ~c.enabled THEN [panic |-> FALSE, look |-> t]
    ELSE IF Undefined(t) THEN [panic |-> FALSE, look |-> [t EXCEPT !.nan = TRUE]]
    ELSE OrbitUpdate(t, evs, rotation)

\* control_orbit_camera on a query result that is not empty: the first camera is
\* updated, the others are not visited.
OrbitCameras(cams, evs, rotation) ==
    LET res == OrbitControl(cams[1].controller, cams[1].look, evs, rotation)
    IN  [panic |-> res.panic,
         cams |-> [i \in 1..Len(cams) |->
                     IF i = 1 THEN [cams[i] EXCEPT !.look = res.look] ELSE cams[i]]]

control_orbit_camera ==
    /\ mode = "orbit"
    /\ ~panicked
    /\ ~ran.control
    /\ ran' = [ran EXCEPT !.control = TRUE]
    /\ IF cameras = <<>>
       THEN UNCHANGED << eventsRead, applied, pre, look, rest, panicked >>
       ELSE LET read == ReaderIter(events, eventsRead)
                out == OrbitCameras(cameras, Payloads(read), scene)
            IN  /\ eventsRead' = Len(EventsAll(events))
                /\ applied' = read
                /\ pre' = look
                /\ look' = out.cams[1].look
                /\ rest' = Tail(out.cams)
                /\ panicked' = out.panic
    /\ UNCHANGED << mode, tick, controller, scene, keyboard, middle, motion,
                    motionRead, wheel, wheelRead, events, rawRead, wheelSeen,
                    disabledTicks, lost, scenario, present, front, cameraLess >>

(***************************************************************************)
(* The plugins register the mapper and the controller update with          *)
(* add_system and no ordering between them: in a frame each runs once, in  *)
(* either order, never at the same time (both access the control events).  *)
(***************************************************************************)
Next ==
    \/ FrameInput
    \/ map_fps_input
    \/ control_fps_camera
    \/ map_orbit_input
    \/ control_orbit_camera

Spec == Init /\ [][Next]_vars

\* The same app with entities that come and go.
SceneSpec == SceneInit /\ [][Next]_vars

(***************************************************************************)
(* Properties.                                                             *)
(***************************************************************************)
Enabled == controller.enabled

\* The controller update of the current frame has run.
Updated == tick > 0 /\ ran.control

\* The mapper of the current frame has run.
Mapped == tick > 0 /\ ran.map

\* The payloads of the entries of e that were sent in the current frame.
SentNow(e) ==
    LET Now(x) == x.tick = tick
    IN  Payloads(SelectSeq(EventsAll(e), Now))

OfType(evs, type) ==
    LET Is(x) == x.type = type
    IN  SelectSeq(evs, Is)

Consumed == Payloads(applied)

\* C1: in a tick with the controller disabled, whatever control events are queued,
\* the LookTransform after the controller update equals its value before (both modes).
C1_DisabledLeavesLookTransform ==
    (Updated /\ ~Enabled) => look = pre

\* C1 witness: a disabled update that found control events in its queue.
C1_Witness ==
    Updated /\ ~Enabled /\ Len(applied) > 0 /\ look = pre

\* C2 (as claimed): an enabled FPS update leaves the radius as it was before the tick.
C2_FpsRadiusPreserved ==
    (mode = "fps" /\ Updated /\ Enabled /\ ~panicked /\ ~look.nan /\ ~Undefined(pre))
        => radius(look) = radius(pre)

\* C3 (as claimed): an enabled Orbit update that consumes TranslateTarget events and
\* no Zoom other than Zoom(1) leaves radius() as it was before.
C3_OrbitPanPreservesRadius ==
    (/\ mode = "orbit" /\ Updated /\ Enabled /\ ~panicked /\ ~Undefined(pre)
     /\ OfType(Consumed, "TranslateTarget") # <<>>
     /\ \A i \in 1..Len(Consumed) : Consumed[i].type = "Zoom" => Consumed[i].scalar = 1)
        => radius(look) = radius(pre)

\* C4 (as claimed): the LookTransform always satisfies eye != target, with defined
\* vectors.
C4_EyeNeverOnTarget ==
    look.eye # look.target /\ ~look.nan

\* C5 (as claimed): no control event written in tick n is consumed in a later tick.
C5_NoEventConsumedLater ==
    \A i \in 1..Len(applied) : applied[i].tick = tick

C7_MapperRunsBeforeController ==
    /\ ran.control => ran.map
    /\ (ran.map /\ ran.control) => eventsRead = Len(EventsAll(events))

\* C8 (as claimed): driving the pitch to or beyond the pole never terminates the
\* program.
C8_PoleNeverTerminates ==
    ~panicked

\* The product of the scalars of a sequence of Zoom events.
RECURSIVE ScalarProduct(_)
ScalarProduct(zs) == IF zs = <<>> THEN 1 ELSE Head(zs).scalar * ScalarProduct(Tail(zs))

\* The product of (1 - y * s) over a sequence of scroll values.
RECURSIVE ScrollProduct(_, _)
ScrollProduct(ys, s) == IF ys = <<>> THEN 1 ELSE (1 - Head(ys) * s) * ScrollProduct(Tail(ys), s)

C10_Case ==
    /\ mode = "fps" /\ Updated /\ Enabled /\ ~panicked /\ ~Undefined(pre)
    /\ Len(Consumed) = 2
    /\ Consumed[1].type = "Rotate"
    /\ Consumed[2].type = "TranslateEye"

StartYaw == get_yaw(from_vector(look_direction(pre)))

\* C10 (as claimed): the eye is translated in the basis of the yaw as it is after the
\* Rotate was applied.
C10_TranslatesInRotatedBasis ==
    C10_Case =>
        look.eye = VAdd(pre.eye, RotateY(StartYaw - Consumed[1].delta[1],
                                         Consumed[2].delta))

\* C10 (amended): the eye is translated in the basis of the yaw at the start of the
\* tick; the Rotate before it does not turn the translation.
C10_TranslatesInStartBasis ==
    C10_Case =>
        look.eye = VAdd(pre.eye, RotateY(StartYaw, Consumed[2].delta))

\* C10 witness: the Rotate changed the yaw and the eye has moved.
C10_Witness ==
    C10_Case /\ Consumed[1].delta[1] % 4 # 0 /\ look.eye # pre.eye

\* The case of C11: an enabled FPS update of a level camera at distance 1 from its
\* target, looking down -Z (eye = (0,0,0), target = (0,0,-1) up to a translation of
\* both), that consumed one TranslateEye, along Z, and no Rotate other than the zero
\* Rotate the mapper sends with it.
C11_Case ==
    /\ mode = "fps" /\ Updated /\ Enabled /\ ~panicked /\ ~pre.nan
    /\ VSub(pre.target, pre.eye) = <<0, 0, -Scale>>
    /\ Len(OfType(Consumed, "TranslateEye")) = 1
    /\ OfType(Consumed, "TranslateEye")[1].delta[1] = 0
    /\ OfType(Consumed, "TranslateEye")[1].delta[2] = 0
    /\ OfType(Consumed, "TranslateEye")[1].delta[3] # 0
    /\ \A i \in 1..Len(Consumed) :
          Consumed[i].type = "Rotate" => Consumed[i].delta = Vec2ZERO

\* The k of TranslateEye(k * Z) in the case of C11.
C11_K == OfType(Consumed, "TranslateEye")[1].delta[3]

RECURSIVE SumTranslations(_, _)
SumTranslations(evs, yaw) ==
    IF evs = <<>> THEN <<0, 0, 0>>
    ELSE VAdd(IF Head(evs).type = "TranslateEye"
              THEN RotateY(yaw, Head(evs).delta) ELSE <<0, 0, 0>>,
              SumTranslations(Tail(evs), yaw))

\* C13: in control_fps_camera the yaw-only basis is computed once, from the yaw at the
\* start of the tick: every TranslateEye of the tick is applied in that basis,
\* wherever the Rotate events sit in the queue relative to it.
C13_BasisComputedOnce ==
    (mode = "fps" /\ Updated /\ Enabled /\ ~panicked /\ ~Undefined(pre))
        => look.eye = VAdd(pre.eye, SumTranslations(Consumed, StartYaw))

\* C13 witness: the update consumed a Rotate that turns the yaw, then a TranslateEye,
\* then another Rotate that turns the yaw, then another TranslateEye.
C13_Witness ==
    /\ mode = "fps" /\ Updated /\ Enabled /\ ~panicked /\ ~Undefined(pre)
    /\ look.eye # pre.eye
    /\ \E i, j, k, l \in 1..Len(Consumed) :
          /\ i < j /\ j < k /\ k < l
          /\ Consumed[i].type = "Rotate" /\ Consumed[i].delta[1] % 4 # 0
          /\ Consumed[j].type = "TranslateEye"
          /\ Consumed[k].type = "Rotate" /\ Consumed[k].delta[1] % 4 # 0
          /\ Consumed[l].type = "TranslateEye"

\* The keys of the FPS mapper in its fixed order.
C14_KeyOrder == << "W", "A", "S", "D", "LShift", "Space" >>

\* The keys held in the current tick, in the fixed order.
C14_Held ==
    LET IsHeld(k) == k \in keyboard
    IN  SelectSeq(C14_KeyOrder, IsHeld)

\* The direction the key table gives a key.
C14_Dir(k) == (CHOOSE i \in 1..Len(KeyDirs) : KeyDirs[i].key = k)

\* C14: in an enabled tick the FPS mapper emits exactly one Rotate event (with zero
\* delta when there was no pointer motion), followed by exactly one TranslateEye per
\* held key, in the fixed order W, A, S, D, LShift, Space; translations of several
\* keys are never merged into one event.
C14_FpsMapperEmits ==
    (mode = "fps" /\ Mapped /\ Enabled) =>
        LET sent == SentNow(events)
        IN  /\ Len(sent) = 1 + Len(C14_Held)
            /\ sent[1].type = "Rotate"
            /\ SentNow(motion) = <<>> => sent[1].delta = Vec2ZERO
            /\ \A i \in 1..Len(C14_Held) :
                  sent[i + 1] = TranslateEye(VScale(controller.translate_sensitivity,
                                                    KeyDirs[C14_Dir(C14_Held[i])].dir))

\* C14 witness: two keys held and no pointer motion: a zero Rotate and two
\* TranslateEye events were sent.
C14_Witness ==
    /\ mode = "fps" /\ Mapped /\ Enabled
    /\ Cardinality(keyboard) = 2 /\ SentNow(motion) = <<>>
    /\ Len(SentNow(events)) = 3
    /\ SentNow(events)[1] = Rotate(Vec2ZERO)

\* C15: in an enabled tick the Orbit mapper emits, in this order, exactly one Orbit
\* event, then one TranslateTarget event if and only if the middle button is held,
\* then exactly one Zoom event, whose scalar is 1 when nothing was scrolled.
C15_OrbitMapperEmits ==
    (mode = "orbit" /\ Mapped /\ Enabled) =>
        LET sent == SentNow(events)
            n == Len(sent)
        IN  /\ n = IF middle THEN 3 ELSE 2
            /\ sent[1].type = "Orbit"
            /\ middle => sent[2].type = "TranslateTarget"
            /\ sent[n].type = "Zoom"
            /\ SentNow(wheel) = <<>> => sent[n].scalar = 1

\* C15 witness: middle button held and nothing scrolled: Orbit, TranslateTarget and
\* Zoom(1) were sent.
C15_Witness ==
    /\ mode = "orbit" /\ Mapped /\ Enabled /\ middle /\ SentNow(wheel) = <<>>
    /\ Len(SentNow(events)) = 3
    /\ SentNow(events)[3] = Zoom(1)

\* The events the last controller update consumed, with those at i and j exchanged.
C18_Exchanged(i, j) ==
    [k \in 1..Len(Consumed) |->
        Consumed[IF k = i THEN j ELSE IF k = j THEN i ELSE k]]

\* The events the last controller update consumed, last first.
C18_Reversed == [k \in 1..Len(Consumed) |-> Consumed[Len(Consumed) + 1 - k]]

\* What the enabled update makes of the starting LookTransform and the events evs.
UpdateResult(evs) ==
    IF mode = "fps" THEN FpsControl(controller, pre, evs)
    ELSE OrbitControl(controller, pre, evs, scene)

\* C18: the result of an enabled controller update depends only on the multiset of
\* events it consumes, not on their order, as long as the pitch stays inside the pole
\* guard.  The LookTransform after the update is what the update makes of the
\* starting LookTransform and the consumed events; and from the same starting
\* LookTransform, the event loop leaves the same angles, eye, target and radius
\* scalar on the consumed events in reverse and with any two of them exchanged
\* (exchanges generate every reordering), so that the final LookTransform, computed
\* from these alone, is the same.
C18_OrderIndependent ==
    (Updated /\ Enabled /\ ~panicked /\ ~Undefined(pre)) =>
        LET fps0 == [angles |-> from_vector(look_direction(pre)), eye |-> pre.eye]
            basis == << RotateY(StartYaw, Vec3X), RotateY(StartYaw, Vec3Y),
                        RotateY(StartYaw, Vec3Z) >>
            orbit0 == [angles |-> from_vector(VNeg(look_direction(pre))),
                       target |-> pre.target, radius_scalar |-> 1]
            Loop(evs) == IF mode = "fps" THEN FpsApply(fps0, evs, basis)
                         ELSE OrbitApply(orbit0, evs, scene)
            done == Loop(Consumed)
        IN  /\ UpdateResult(Consumed) = [panic |-> FALSE, look |-> look]
            /\ Loop(C18_Reversed) = done
            /\ \A i, j \in 1..Len(Consumed) :
                  i < j => Loop(C18_Exchanged(i, j)) = done

\* C18 witness: an Orbit update that consumed, among others, an Orbit that turns the
\* yaw and a TranslateTarget that moves the target.
C18_Witness ==
    /\ mode = "orbit" /\ Updated /\ Enabled /\ ~panicked /\ ~Undefined(pre)
    /\ Len(Consumed) >= 3
    /\ \E i, j \in 1..Len(Consumed) :
          /\ Consumed[i].type = "Orbit" /\ Consumed[i].delta[1] % 4 # 0
          /\ Consumed[j].type = "TranslateTarget" /\ Consumed[j].delta # Vec2ZERO
    /\ look # pre

\* An event of neutral input: Rotate(0,0), Orbit(0,0) or Zoom(1).
C19_Neutral(e) ==
    \/ e.type \in {"Rotate", "Orbit"} /\ e.delta = Vec2ZERO
    \/ e.type = "Zoom" /\ e.scalar = 1

C12_Fresh ==
    LET Later(x) == \A t \in cameraLess : t < tick => x.tick > t
    IN  Payloads(SelectSeq(applied, Later))

\* C12 (as claimed): with zero matching cameras a tick is a no-op: a mapper whose
\* query is empty reads no input and sends no control event, a controller update
\* whose query is empty changes no LookTransform, and the control events that were in
\* the queue during a tick without a camera have no effect on a camera that appears
\* in a later tick: its update gives what it gives on the other events alone.
C12_CameraLessTickIsNoOp ==
    /\ (Mapped /\ controllers = <<>>) => SentNow(events) = <<>> /\ rawRead = <<>>
    /\ (Updated /\ cameras = <<>>) => look = pre /\ applied = <<>>
    /\ (Updated /\ cameras # <<>> /\ ~panicked) =>
          look = UpdateResult(C12_Fresh).look

\* C16: with several controlled cameras the controller update modifies the
\* LookTransform of the first camera of its query only: every other camera keeps the
\* LookTransform (and controller) it was spawned with, whatever events are queued.
C16_OtherCamerasUnchanged ==
    \A i \in 1..Len(rest) : rest[i] = SecondCamera

\* C16 witness: with a second camera spawned, an enabled update consumed events and
\* moved the first camera.
C16_Witness ==
    /\ Updated /\ Enabled /\ ~panicked /\ Len(cameras) = 2
    /\ Consumed # <<>> /\ look # pre
    /\ rest = << SecondCamera >>

\* C17 (as claimed): the mapper and the controller update govern the same camera: in
\* a tick in which both have run, either both queries were empty or the first entity
\* of the mapper's query is the first entity of the controller update's query.
C17_SameCameraGoverned ==
    (Mapped /\ Updated) =>
        \/ controllers = <<>> /\ cameras = <<>>
        \/ /\ controllers # <<>> /\ cameras # <<>>
           /\ Head(controllers).entity = Head(cameras).entity

====
